---- MODULE Spec2Model ----
(***************************************************************************)
(* Bollinger-band backtesters of bollinger_forest: the enhanced (random    *)
(* forest gated) simulator, the classical simulator, the feature / split   *)
(* pipeline in front of the enhanced simulator, the indicators, the        *)
(* performance metrics and the ticker loop of the command line.            *)
(*                                                                         *)
(* Numbers.  A Python float is modelled by an exact fraction and a mark    *)
(* telling whether the float is that fraction, the float nearest to it, or *)
(* a float near it through several roundings (see Floats).  A Bollinger    *)
(* track is MA + k * STD with STD a square root, so it is kept as          *)
(* a + k * sqrt(v) (a record [a, k, v]) and only ever compared.            *)
(***************************************************************************)
EXTENDS Integers, Sequences, FiniteSets, TLC

VARIABLES
    strategy,          \* "enhanced" | "classical": which run() is executing ("none": neither)
    pc,                \* position of run(): start, prepared, checked, fitted, loop, returned, failed;
                       \* of an indicator call: start, atr, wma; of the batch: batch, saved, done,
                       \* crashed (an exception left main)
    err,               \* the exception that ended the run ("" when none); in the batch, the
                       \* statement whose exception left main
    df,                \* the input price series (sequence of bars)
    split_date,        \* the split date (bar dates are 1..Len(df))
    df_processed,      \* prepare_features' output rows
    train_data,        \* rows dated before split_date
    test_data,         \* rows dated on or after split_date (plus predictions)
    fitted,            \* whether model.fit has completed
    position,          \* 0 FLAT, 1 LONG, -1 SHORT
    cash,
    entry_price,
    shares,
    portfolio_values,  \* the list the loop appends to
    i,                 \* number of bars the loop has processed
    row,               \* the row of the bar processed last
    prev,              \* position, cash, entry_price, shares at the start of that bar
    window,            \* the window argument (d of the classical strategy, n of an indicator)
    tickers,           \* args.tickers of the command line batch
    ticker_i,          \* number of tickers the batch loop has finished with
    results,           \* the batch loop's list of summary rows
    outcome            \* how the iteration of each ticker the loop came to ended

vars == <<strategy, pc, err, df, split_date, df_processed, train_data, test_data,
          fitted, position, cash, entry_price, shares, portfolio_values, i, row, prev,
          window, tickers, ticker_i, results, outcome>>

(***************************************************************************)
(* Bounds of the model.                                                    *)
(***************************************************************************)
MaxBars == 4

(***************************************************************************)
(* Program constants.                                                      *)
(***************************************************************************)
InitialCapital == 100000
D == 20
K == 3
N_ATR == 20
StopMult == 3
NLags == 6
NTrees == 100

(***************************************************************************)
(* Floats.  A float is <<n, d, e>>: the reduced fraction n / d (d > 0) and *)
(* how the float stands to it:                                             *)
(*   e = 0  the float is n / d;                                            *)
(*   e = 1  n / d is no float and the float is the one nearest to it (the  *)
(*          correctly rounded result of one operation on exact operands);  *)
(*   e = 2  the float was computed from rounded operands: it lies within   *)
(*          the accumulated rounding error of n / d, and which float it is *)
(*          is not determined here.                                        *)
(* An operation computes the exact result of the fractions and the e of    *)
(* the float: an input of the program is a float as it stands (e = 0).     *)
(* Two floats with the same fraction are the same float when neither has   *)
(* e = 2.  The fractions of the model differ by far more than rounding     *)
(* errors, so floats of different fractions are ordered as the fractions;  *)
(* floats of the same fraction, one of them with e = 2, are ordered by     *)
(* rounding (RTie).  NaN is <<0, 0, 0>>.                                   *)
(***************************************************************************)
Abs(x) == IF x < 0 THEN -x ELSE x

RECURSIVE GCD(_, _)
GCD(a, b) == IF b = 0 THEN a ELSE GCD(b, a % b)

\* the fraction n / d reduced, as <<n, d>> with d > 0
Norm(n, d) ==
    LET g == GCD(Abs(n), Abs(d))
        s == IF d < 0 THEN -1 ELSE 1
    IN  <<(s * n) \div g, (s * d) \div g>>

RECURSIVE IsPow2(_)
IsPow2(n) == n = 1 \/ (n > 1 /\ n % 2 = 0 /\ IsPow2(n \div 2))

NaN == <<0, 0, 0>>
IsNaN(x) == x[2] = 0
R(n) == <<n, 1, 0>>
Zero == R(0)
One == R(1)

\* the float is the fraction: the value is a float as it stands
Exact(x) == x[2] # 0 /\ x[3] = 0
SameValue(x, y) == x[1] = y[1] /\ x[2] = y[2]
\* the same fraction and no accumulated rounding: one and the same float
SameFloat(x, y) == SameValue(x, y) /\ x[3] <= 1 /\ y[3] <= 1
\* a power of two or its negative: multiplying or dividing by it does not round
Scale(y) == y[3] = 0 /\ IsPow2(Abs(y[1])) /\ IsPow2(y[2])

\* the float an operation on x and y returns for the exact result f
Rounded(x, y, f) ==
    <<f[1], f[2], IF x[3] = 0 /\ y[3] = 0 THEN (IF IsPow2(f[2]) THEN 0 ELSE 1) ELSE 2>>

RNeg(x) == <<0 - x[1], x[2], x[3]>>
RAdd(x, y) == IF IsNaN(x) \/ IsNaN(y) THEN NaN
              ELSE IF y = Zero THEN x
              ELSE IF x = Zero THEN y
              ELSE IF SameFloat(x, RNeg(y)) THEN Zero
              ELSE Rounded(x, y, Norm(x[1] * y[2] + y[1] * x[2], x[2] * y[2]))
RSub(x, y) == IF IsNaN(x) \/ IsNaN(y) THEN NaN ELSE RAdd(x, RNeg(y))
RMul(x, y) == IF IsNaN(x) \/ IsNaN(y) THEN NaN
              ELSE IF x = Zero \/ y = Zero THEN Zero
              ELSE IF Scale(y) THEN Norm(x[1] * y[1], x[2] * y[2]) \o <<x[3]>>
              ELSE IF Scale(x) THEN Norm(x[1] * y[1], x[2] * y[2]) \o <<y[3]>>
              ELSE Rounded(x, y, Norm(x[1] * y[1], x[2] * y[2]))
\* Only called with a non-zero divisor: Python's float / raises on zero.
RDiv(x, y) == IF IsNaN(x) \/ IsNaN(y) \/ y[1] = 0 THEN NaN
              ELSE IF x = Zero THEN Zero
              ELSE IF SameFloat(x, y) THEN One
              ELSE IF Scale(y) THEN Norm(x[1] * y[2], x[2] * y[1]) \o <<x[3]>>
              ELSE Rounded(x, y, Norm(x[1] * y[2], x[2] * y[1]))
RAbs(x) == <<Abs(x[1]), x[2], x[3]>>
\* a float near the fraction of x, through roundings not followed one by one
Uncertain(x) == <<x[1], x[2], 2>>

RECURSIVE FracCmp(_, _, _, _)
\* sign of a / b - c / d for a, c >= 0 and b, d > 0, without the products
FracCmp(a, b, c, d) ==
    LET q1 == a \div b
        q2 == c \div d
        r1 == a % b
        r2 == c % d
    IN  IF q1 # q2 THEN (IF q1 < q2 THEN -1 ELSE 1)
        ELSE IF r1 = 0 THEN (IF r2 = 0 THEN 0 ELSE -1)
        ELSE IF r2 = 0 THEN 1
        ELSE FracCmp(d, r2, b, r1)

Sign(n) == IF n < 0 THEN -1 ELSE IF n = 0 THEN 0 ELSE 1

\* sign of the fraction of x minus the fraction of y; only used on defined values
RCmp(x, y) ==
    IF Sign(x[1]) # Sign(y[1]) THEN (IF x[1] < y[1] THEN -1 ELSE 1)
    ELSE IF x[1] >= 0 THEN FracCmp(x[1], x[2], y[1], y[2])
    ELSE FracCmp(0 - y[1], y[2], 0 - x[1], x[2])

\* the floats x and y have one fraction and rounding orders them
RTie(x, y) == ~IsNaN(x) /\ ~IsNaN(y) /\ SameValue(x, y) /\ ~SameFloat(x, y)
\* sign of the float x minus the float y, tie the sign rounding gives a tie
RSign(x, y, tie) == IF RTie(x, y) THEN tie ELSE RCmp(x, y)

\* IEEE comparisons of the fractions: anything compared with NaN is false.
RLt(x, y) == ~IsNaN(x) /\ ~IsNaN(y) /\ RCmp(x, y) < 0
RLe(x, y) == ~IsNaN(x) /\ ~IsNaN(y) /\ RCmp(x, y) <= 0
RGt(x, y) == RLt(y, x)
RGe(x, y) == RLe(y, x)
RMax(x, y) == IF RLt(x, y) THEN y
              ELSE IF RTie(x, y) THEN <<x[1], x[2], 2>> ELSE x

(***************************************************************************)
(* A track a + k * sqrt(v), v >= 0, and its comparison with a float.  The  *)
(* float of the track is a + k * std computed in floats.                   *)
(***************************************************************************)
Track(a, k, v) == [a |-> a, k |-> k, v |-> v]
NaNTrack == Track(NaN, 0, NaN)
TIsNaN(t) == IsNaN(t.a) \/ IsNaN(t.v)

IsSquare(n) == \E q \in 0 .. (IF n < 46340 THEN n ELSE 46340) : q * q = n

\* the float of the track is its value: a, v and sqrt(v) are floats as they stand
TExact(t) == Exact(t.a) /\ Exact(t.v) /\ IsSquare(t.v[1]) /\ IsSquare(t.v[2])

\* sign of x - (a + k * sqrt(v)) on the fractions; only used on defined values
TCmp(x, t) ==
    LET dd  == Norm(x[1] * t.a[2] - t.a[1] * x[2], x[2] * t.a[2])
        mag == FracCmp(dd[1] * dd[1], dd[2] * dd[2],
                       t.k * t.k * t.v[1], t.v[2])   \* sign of |x - a| - |k| * sqrt(v)
    IN  IF t.k >= 0
        THEN IF dd[1] < 0 THEN -1 ELSE mag
        ELSE IF dd[1] > 0 THEN 1 ELSE 0 - mag

\* the float x and the float of the track have one value and rounding orders them
TTie(x, t) == ~IsNaN(x) /\ ~TIsNaN(t) /\ TCmp(x, t) = 0 /\ ~(Exact(x) /\ TExact(t))
\* sign of the float x minus the float of the track
TSign(x, t, tie) == IF TTie(x, t) THEN tie ELSE TCmp(x, t)

\* comparisons of a float with the float of a track; anything compared with an
\* undefined value is false
TLeOfUndefined(x, t, tie) == IsNaN(x) \/ TIsNaN(t) \/ TSign(x, t, tie) <= 0
TLe(x, t, tie) == ~IsNaN(x) /\ ~TIsNaN(t) /\ TSign(x, t, tie) <= 0
TLt(x, t, tie) == ~IsNaN(x) /\ ~TIsNaN(t) /\ TSign(x, t, tie) < 0
TGe(x, t, tie) == ~IsNaN(x) /\ ~TIsNaN(t) /\ TSign(x, t, tie) >= 0
TGt(x, t, tie) == ~IsNaN(x) /\ ~TIsNaN(t) /\ TSign(x, t, tie) > 0

(***************************************************************************)
(* The simulators' per-bar state and steps.                                *)
(***************************************************************************)
FLAT == 0
LONG == 1
SHORT == -1

St(p, c, e, s) == [position |-> p, cash |-> c, entry_price |-> e, shares |-> s]
Cur == St(position, cash, entry_price, shares)
InitSt == St(FLAT, R(InitialCapital), Zero, Zero)

\* How rounding orders the floats a bar compares when they have one value: the
\* sign of the prediction (the close, in the classical loop) minus the Lower
\* Track, the Upper Track and the stop level; 0 where the order is determined.
Ties(lo, up, stop) == [lower |-> lo, upper |-> up, stop |-> stop]
NoTies == Ties(0, 0, 0)

\* comparisons of floats; anything compared with an undefined value is false
FLt(x, y, tie) == ~IsNaN(x) /\ ~IsNaN(y) /\ RSign(x, y, tie) < 0
FGt(x, y, tie) == ~IsNaN(x) /\ ~IsNaN(y) /\ RSign(x, y, tie) > 0

\* enhanced.py 127-131
OpenLong(st, r) ==
    St(LONG, Zero, r.Close, RDiv(st.cash, r.Close))

\* OpenShort sized from the cash at hand instead of the initial capital.
OpenShortFromCash(st, r) ==
    LET sh == RDiv(st.cash, r.Close)
    IN  St(SHORT, RAdd(st.cash, RMul(sh, r.Close)), r.Close, sh)

\* enhanced.py 132-136
OpenShort(st, r) ==
    LET sh == RDiv(R(InitialCapital), r.Close)
    IN  St(SHORT, RAdd(R(InitialCapital), RMul(sh, r.Close)), r.Close, sh)

\* LongExit with inclusive comparisons.
LongExitInclusive(st, r) ==
    LET stop_loss == RSub(st.entry_price, RMul(R(StopMult), r.ATR))
    IN  \/ ~FGt(r.Predicted_WMA_Next, stop_loss, r.ties.stop)
        \/ TGe(r.Predicted_WMA_Next, r.Upper_Track, r.ties.upper)

\* enhanced.py 138-139
LongExit(st, r) ==
    LET stop_loss == RSub(st.entry_price, RMul(R(StopMult), r.ATR))
    IN  \/ FLt(r.Predicted_WMA_Next, stop_loss, r.ties.stop)
        \/ TGt(r.Predicted_WMA_Next, r.Upper_Track, r.ties.upper)

\* CloseLong that forgets to reset shares.
CloseLongKeepShares(st, r) ==
    St(FLAT, RMul(st.shares, r.Close), st.entry_price, st.shares)

\* enhanced.py 140-142
CloseLong(st, r) ==
    St(FLAT, RMul(st.shares, r.Close), st.entry_price, Zero)

\* enhanced.py 144-145
ShortExit(st, r) ==
    LET stop_loss == RAdd(st.entry_price, RMul(R(StopMult), r.ATR))
    IN  \/ FGt(r.Predicted_WMA_Next, stop_loss, r.ties.stop)
        \/ TLt(r.Predicted_WMA_Next, r.Lower_Track, r.ties.lower)

\* CloseShort that books the proceeds the way CloseLong does.
CloseShortAsLong(st, r) ==
    St(FLAT, RMul(st.shares, r.Close), st.entry_price, Zero)

\* enhanced.py 146-149
CloseShort(st, r) ==
    LET cost == RMul(st.shares, r.Close)
    IN  St(FLAT, RSub(st.cash, cost), st.entry_price, Zero)

\* The branch of the if/elif chain taken on a bar (enhanced.py 127-149).
EnhancedBranch(st, r) ==
    IF st.position = 0 /\ TLe(r.Predicted_WMA_Next, r.Lower_Track, r.ties.lower) THEN "open_long"
    ELSE IF st.position = 0 /\ TGe(r.Predicted_WMA_Next, r.Upper_Track, r.ties.upper) THEN "open_short"
    ELSE IF st.position = 1 THEN (IF LongExit(st, r) THEN "close_long" ELSE "none")
    ELSE IF st.position = -1 THEN (IF ShortExit(st, r) THEN "close_short" ELSE "none")
    ELSE "none"

\* Whether the branch divides by a zero close (float / raises ZeroDivisionError).
EnhancedRaises(st, r) ==
    EnhancedBranch(st, r) \in {"open_long", "open_short"} /\ r.Close = Zero

\* The chain written with independent ifs: a later rule sees an earlier rule's result.
EnhancedTransitionSeparateIfs(st, r) ==
    LET s1 == IF st.position = 0 /\ TLe(r.Predicted_WMA_Next, r.Lower_Track, r.ties.lower)
              THEN OpenLong(st, r) ELSE st
        s2 == IF s1.position = 0 /\ TGe(r.Predicted_WMA_Next, r.Upper_Track, r.ties.upper)
              THEN OpenShort(s1, r) ELSE s1
        s3 == IF s2.position = 1 /\ LongExit(s2, r) THEN CloseLong(s2, r) ELSE s2
    IN  IF s3.position = -1 /\ ShortExit(s3, r) THEN CloseShort(s3, r) ELSE s3

EnhancedTransition(st, r) ==
    LET b == EnhancedBranch(st, r)
    IN  CASE b = "open_long"   -> OpenLong(st, r)
          [] b = "open_short"  -> OpenShort(st, r)
          [] b = "close_long"  -> CloseLong(st, r)
          [] b = "close_short" -> CloseShort(st, r)
          [] OTHER             -> st

\* EnhancedValue that values every position as cash + shares * close.
EnhancedValueAsClassical(st, r) == RAdd(st.cash, RMul(st.shares, r.Close))

\* enhanced.py 151-156
EnhancedValue(st, r) ==
    IF st.position = 0 THEN st.cash
    ELSE IF st.position = 1 THEN RMul(st.shares, r.Close)
    ELSE RSub(st.cash, RMul(st.shares, r.Close))

\* ClassicalBranch buying at or above the Lower Track.
ClassicalBranchAboveLower(st, r) ==
    IF st.position = 0 /\ TGe(r.Close, r.Lower_Track, r.ties.lower) THEN "open_long"
    ELSE IF st.position = 1 /\ TGe(r.Close, r.Upper_Track, r.ties.upper) THEN "close_long"
    ELSE "none"

\* classical.py 69-76
ClassicalBranch(st, r) ==
    IF st.position = 0 /\ TLe(r.Close, r.Lower_Track, r.ties.lower) THEN "open_long"
    ELSE IF st.position = 1 /\ TGe(r.Close, r.Upper_Track, r.ties.upper) THEN "close_long"
    ELSE "none"

ClassicalRaises(st, r) ==
    ClassicalBranch(st, r) = "open_long" /\ r.Close = Zero

ClassicalTransition(st, r) ==
    LET b == ClassicalBranch(st, r)
    IN  CASE b = "open_long"  -> St(LONG, Zero, st.entry_price, RDiv(st.cash, r.Close))
          [] b = "close_long" -> St(FLAT, RMul(st.shares, r.Close), st.entry_price, Zero)
          [] OTHER            -> st

\* classical.py 78
ClassicalValue(st, r) == RAdd(st.cash, RMul(st.shares, r.Close))

Transition(st, r) ==
    IF strategy = "enhanced" THEN EnhancedTransition(st, r) ELSE ClassicalTransition(st, r)
Raises(st, r) ==
    IF strategy = "enhanced" THEN EnhancedRaises(st, r) ELSE ClassicalRaises(st, r)
Value(st, r) ==
    IF strategy = "enhanced" THEN EnhancedValue(st, r) ELSE ClassicalValue(st, r)

\* enhanced.py 128-130, 133-135: position and entry_price are assigned before the
\* division that raises; cash and shares are not
EnhancedAtRaise(st, r) ==
    IF EnhancedBranch(st, r) = "open_long"
    THEN St(LONG, st.cash, r.Close, st.shares)
    ELSE St(SHORT, st.cash, r.Close, st.shares)

\* classical.py 71-72: position is assigned before the division that raises
ClassicalAtRaise(st, r) == St(LONG, st.cash, st.entry_price, st.shares)

AtRaise(st, r) ==
    IF strategy = "enhanced" THEN EnhancedAtRaise(st, r) ELSE ClassicalAtRaise(st, r)

\* the stop level of an open position (enhanced.py 138, 144)
StopLoss(st, r) ==
    IF st.position = 1 THEN RSub(st.entry_price, RMul(R(StopMult), r.ATR))
    ELSE RAdd(st.entry_price, RMul(R(StopMult), r.ATR))

\* the ways rounding can order the floats the bar compares
EnhancedTies(st, r) ==
    LET tl == st.position \in {0, -1} /\ TTie(r.Predicted_WMA_Next, r.Lower_Track)
        tu == st.position \in {0, 1} /\ TTie(r.Predicted_WMA_Next, r.Upper_Track)
        ts == st.position # 0 /\ RTie(r.Predicted_WMA_Next, StopLoss(st, r))
    IN  {o \in [lower : {-1, 0, 1}, upper : {-1, 0, 1}, stop : {-1, 0, 1}] :
            /\ o.lower # 0 => tl
            /\ o.upper # 0 => tu
            /\ o.stop # 0 => ts}

ClassicalTies(st, r) ==
    LET tl == st.position = 0 /\ TTie(r.Close, r.Lower_Track)
        tu == st.position = 1 /\ TTie(r.Close, r.Upper_Track)
    IN  {o \in [lower : {-1, 0, 1}, upper : {-1, 0, 1}, stop : {0}] :
            /\ o.lower # 0 => tl
            /\ o.upper # 0 => tu}

TieChoices(st, r) ==
    IF strategy = "enhanced" THEN EnhancedTies(st, r) ELSE ClassicalTies(st, r)

\* the row r with the order rounding gives the floats compared on it
WithTies(r, o) == [f \in DOMAIN r \cup {"ties"} |-> IF f = "ties" THEN o ELSE r[f]]

\* One iteration of the loop on row r0: the transition, the valuation, the
\* append; or the exception that ends the run, with the locals as they are at
\* the raise.
ProcessBar(r0) ==
    \E o \in TieChoices(Cur, r0) :
        LET r == WithTies(r0, o)
        IN  /\ row' = r
            /\ prev' = Cur
            /\ IF Raises(Cur, r)
               THEN /\ pc' = "failed"
                    /\ err' = "ZeroDivisionError"
                    /\ position' = AtRaise(Cur, r).position
                    /\ entry_price' = AtRaise(Cur, r).entry_price
                    /\ UNCHANGED <<cash, shares, portfolio_values, i>>
               ELSE LET nx == Transition(Cur, r)
                    IN  /\ position' = nx.position
                        /\ cash' = nx.cash
                        /\ entry_price' = nx.entry_price
                        /\ shares' = nx.shares
                        /\ portfolio_values' = Append(portfolio_values, Value(nx, r))
                        /\ i' = i + 1
                        /\ UNCHANGED <<pc, err>>

(***************************************************************************)
(* Spec: the two loops on rows drawn bar by bar.  A row holds the columns  *)
(* the loop reads; the tracks are MA + K * STD and MA - K * STD of one MA  *)
(* and one STD, as calculate_bollinger_bands builds them.                  *)
(***************************************************************************)
SimCloses == {R(0), R(2), R(7)}
\* the last two are predictions whose float rounding placed at, above or below
\* a track or a stop level
SimPreds  == {R(n) : n \in {-2, -1, 0, 2, 4, 5, 6}} \cup {Uncertain(R(-1)), Uncertain(R(5))}
SimMAs    == {R(2)}
SimVars   == {R(0), R(1)}
SimATRs   == {R(0), R(1)}

SimRow(c, p, ma, v, a) ==
    [Close |-> c, Predicted_WMA_Next |-> p, ATR |-> a,
     Upper_Track |-> Track(ma, K, v), Lower_Track |-> Track(ma, 0 - K, v)]

EnhancedRows ==
    {SimRow(c, p, ma, v, a) : c \in SimCloses, p \in SimPreds, ma \in SimMAs,
                              v \in SimVars, a \in SimATRs}

\* Rows of the classical frame: no prediction or ATR column; the tracks are
\* undefined on warm-up bars.
ClassicalRows ==
    {SimRow(c, NaN, ma, v, NaN) : c \in SimCloses, ma \in SimMAs, v \in SimVars}
    \cup {[Close |-> c, Predicted_WMA_Next |-> NaN, ATR |-> NaN,
           Upper_Track |-> NaNTrack, Lower_Track |-> NaNTrack] : c \in SimCloses}

NoRow == [Close |-> NaN, Predicted_WMA_Next |-> NaN, ATR |-> NaN,
          Upper_Track |-> NaNTrack, Lower_Track |-> NaNTrack, ties |-> NoTies]

LoopInit ==
    /\ position = InitSt.position
    /\ cash = InitSt.cash
    /\ entry_price = InitSt.entry_price
    /\ shares = InitSt.shares
    /\ portfolio_values = <<>>
    /\ i = 0
    /\ row = NoRow
    /\ prev = InitSt

batchVars == <<tickers, ticker_i, results, outcome>>

\* no batch is running
NoBatch ==
    /\ tickers = <<>>
    /\ ticker_i = 0
    /\ results = <<>>
    /\ outcome = <<>>

Init ==
    /\ strategy \in {"enhanced", "classical"}
    /\ pc = "loop"
    /\ err = ""
    /\ df = <<>>
    /\ split_date = 0
    /\ df_processed = <<>>
    /\ train_data = <<>>
    /\ test_data = <<>>
    /\ fitted = (strategy = "enhanced")
    /\ window = D
    /\ LoopInit
    /\ NoBatch

pipeVars == <<strategy, df, split_date, df_processed, train_data, test_data, fitted>>

EnhancedBar ==
    /\ strategy = "enhanced"
    /\ pc = "loop"
    /\ i < MaxBars
    /\ \E r \in EnhancedRows : ProcessBar(r)
    /\ UNCHANGED pipeVars
    /\ UNCHANGED <<window, batchVars>>

ClassicalBar ==
    /\ strategy = "classical"
    /\ pc = "loop"
    /\ i < MaxBars
    /\ \E r \in ClassicalRows : ProcessBar(r)
    /\ UNCHANGED pipeVars
    /\ UNCHANGED <<window, batchVars>>

Next == EnhancedBar \/ ClassicalBar

Spec == Init /\ [][Next]_vars

(***************************************************************************)
(* Indicators (indicators.py), on a price series with dates 1..Len.        *)
(***************************************************************************)
\* A function on 1 .. n as the sequence of its values, each computed once.
AsSeq(f) == <<>> \o f

RECURSIVE SumRange(_, _, _)
\* sum of s[lo..hi]
SumRange(s, lo, hi) == IF lo > hi THEN Zero ELSE RAdd(s[hi], SumRange(s, lo, hi - 1))

Column(frame, name) == AsSeq([t \in 1 .. Len(frame) |-> frame[t][name]])

\* pandas Series.shift(k): the value k rows earlier (later when k < 0)
Shift(s, k) ==
    AsSeq([t \in 1 .. Len(s) |-> IF t - k \in 1 .. Len(s) THEN s[t - k] ELSE NaN])

HasNaN(s, lo, hi) == \E t \in lo .. hi : IsNaN(s[t])

\* Series.rolling(window=w).mean(): undefined until w defined values are in the window
RollingMean(s, w) ==
    AsSeq([t \in 1 .. Len(s) |->
              IF t < w \/ HasNaN(s, t - w + 1, t) THEN NaN
              ELSE RDiv(SumRange(s, t - w + 1, t), R(w))])

\* Series.rolling(window=w).std() squared: the sample variance (ddof = 1).  pandas
\* updates it value by value, so only the 0.0 of a constant window is exact.
RollingVar(s, w) ==
    LET sq == AsSeq([u \in 1 .. Len(s) |-> RMul(s[u], s[u])])
    IN  AsSeq([t \in 1 .. Len(s) |->
                  IF t < w \/ w < 2 \/ HasNaN(s, t - w + 1, t) THEN NaN
                  ELSE LET sm  == SumRange(s, t - w + 1, t)
                           ssq == SumRange(sq, t - w + 1, t)
                           vr  == RDiv(RSub(RMul(R(w), ssq), RMul(sm, sm)), R(w * (w - 1)))
                       IN  IF vr = Zero THEN Zero ELSE Uncertain(vr)])

\* calculate_wma_3 with the weights in the opposite order.
calculate_wma_3_reversed(series) ==
    AsSeq([t \in 1 .. Len(series) |->
              IF t < 3 \/ HasNaN(series, t - 2, t) THEN NaN
              ELSE RDiv(RAdd(RAdd(RMul(R(3), series[t - 2]), RMul(R(2), series[t - 1])),
                             series[t]), R(6))])

\* indicators.py 27-29
calculate_wma_3(series) ==
    AsSeq([t \in 1 .. Len(series) |->
              IF t < 3 \/ HasNaN(series, t - 2, t) THEN NaN
              ELSE RDiv(RAdd(RAdd(series[t - 2], RMul(R(2), series[t - 1])),
                             RMul(R(3), series[t])), R(6))])

\* indicators.py 48-53: the columns MA, STD, Upper_Track, Lower_Track of each row
calculate_bollinger_bands(close, d, k) ==
    LET ma == RollingMean(close, d)
        vr == RollingVar(close, d)
    IN  AsSeq([t \in 1 .. Len(close) |->
            [MA |-> ma[t],
             STD |-> IF IsNaN(vr[t]) THEN NaNTrack ELSE Track(Zero, 1, vr[t]),
             Upper_Track |-> IF IsNaN(vr[t]) THEN NaNTrack ELSE Track(ma[t], k, vr[t]),
             Lower_Track |-> IF IsNaN(vr[t]) THEN NaNTrack ELSE Track(ma[t], 0 - k, vr[t])]])

\* DataFrame.max(axis=1) skips undefined entries (skipna) and is undefined only
\* when every entry is
MaxSkipNaN(x, y, z) ==
    LET mx(a, b) == IF IsNaN(a) THEN b ELSE IF IsNaN(b) THEN a ELSE RMax(a, b)
    IN  mx(mx(x, y), z)

\* indicators.py 72-83
calculate_atr(frame, n) ==
    LET high   == Column(frame, "High")
        low    == Column(frame, "Low")
        pclose == Shift(Column(frame, "Close"), 1)
        true_range ==
            AsSeq([t \in 1 .. Len(frame) |->
                      MaxSkipNaN(RSub(high[t], low[t]),
                                 RAbs(RSub(high[t], pclose[t])),
                                 RAbs(RSub(low[t], pclose[t])))])
    IN  RollingMean(true_range, n)

(***************************************************************************)
(* EnhancedBollingerStrategy.prepare_features and the split.               *)
(***************************************************************************)
\* enhanced.py 58-69: every row with its derived columns, before dropna
FeatureFrame(frame) ==
    LET close == Column(frame, "Close")
        wma   == calculate_wma_3(close)
        bb    == calculate_bollinger_bands(close, D, K)
        atr   == calculate_atr(frame, N_ATR)
        nxt   == Shift(wma, -1)
        lag   == AsSeq([k \in 1 .. NLags |-> Shift(wma, k - 1)])
    IN  AsSeq([t \in 1 .. Len(frame) |->
            [Date |-> frame[t].Date, Open |-> frame[t].Open, High |-> frame[t].High,
             Low |-> frame[t].Low, Close |-> frame[t].Close, Volume |-> frame[t].Volume,
             WMA_3 |-> wma[t], MA |-> bb[t].MA, STD |-> bb[t].STD,
             Upper_Track |-> bb[t].Upper_Track, Lower_Track |-> bb[t].Lower_Track,
             ATR |-> atr[t],
             WMA_3_lag |-> AsSeq([k \in 1 .. NLags |-> lag[k][t]]),
             Target_Diff |-> RSub(nxt[t], wma[t])]])

\* RowDefined as dropna(subset = the features and the target) would be.
RowDefinedFeaturesOnly(r) ==
    /\ ~IsNaN(r.Open) /\ ~IsNaN(r.High) /\ ~IsNaN(r.Low) /\ ~IsNaN(r.Close)
    /\ ~IsNaN(r.Volume)
    /\ \A k \in 1 .. NLags : ~IsNaN(r.WMA_3_lag[k])
    /\ ~IsNaN(r.Target_Diff)

\* DataFrame.dropna(): a row is kept iff no column of it is undefined
RowDefined(r) ==
    /\ ~IsNaN(r.Open) /\ ~IsNaN(r.High) /\ ~IsNaN(r.Low) /\ ~IsNaN(r.Close)
    /\ ~IsNaN(r.Volume) /\ ~IsNaN(r.WMA_3) /\ ~IsNaN(r.MA) /\ ~TIsNaN(r.STD)
    /\ ~TIsNaN(r.Upper_Track) /\ ~TIsNaN(r.Lower_Track) /\ ~IsNaN(r.ATR)
    /\ \A k \in 1 .. NLags : ~IsNaN(r.WMA_3_lag[k])
    /\ ~IsNaN(r.Target_Diff)

\* enhanced.py 58-70
prepare_features(frame) == SelectSeq(FeatureFrame(frame), RowDefined)

\* enhanced.py 98
TrainRows(processed, split) == SelectSeq(processed, LAMBDA r : r.Date < split)
\* enhanced.py 99
TestRows(processed, split) == SelectSeq(processed, LAMBDA r : r.Date >= split)

\* enhanced.py 63-67: the list of feature column names prepare_features returns
feature_cols ==
    <<"Open", "High", "Low", "Close", "Volume">>
        \o AsSeq([k \in 1 .. NLags |-> "WMA_3_lag_" \o ToString(k - 1)])

\* train_data[feature_cols] (enhanced.py 63-67, 104): a row's feature vector
Features(r) == <<r.Open, r.High, r.Low, r.Close, r.Volume>> \o r.WMA_3_lag

\* enhanced.py 104-105: what model.fit is given
FitInput(frame, split) ==
    LET tr == TrainRows(prepare_features(frame), split)
    IN  AsSeq([t \in 1 .. Len(tr) |->
                  [X |-> Features(tr[t]), y |-> tr[t].Target_Diff]])

(***************************************************************************)
(* SpecRun: EnhancedBollingerStrategy.run on a whole price series.         *)
(* The fitted forest is opaque: a prediction is the mean of the trees'     *)
(* outputs, each a mean of training targets in a leaf.  Predict chooses    *)
(* among all such means (ForestOutputs).                                   *)
(***************************************************************************)
TailLen == 4
RunPrices == {0, 2, 7}
RunSpreads == {0, 1}

MkBar(date, c, spread) ==
    [Date |-> date, Open |-> R(c), High |-> R(c + spread), Low |-> R(c),
     Close |-> R(c), Volume |-> R(1000)]

\* a flat warm-up of D - 1 bars at one price, then TailLen bars at any prices
RunSeries ==
    {[t \in 1 .. (D - 1 + TailLen) |->
         MkBar(t, IF t <= D - 1 THEN base ELSE tail[t - (D - 1)], spread)] :
        base \in RunPrices, tail \in [1 .. TailLen -> RunPrices], spread \in RunSpreads}

RunSplits == {1} \cup (D .. (D + TailLen))

InitRun ==
    /\ strategy = "enhanced"
    /\ pc = "start"
    /\ err = ""
    /\ df \in RunSeries
    /\ split_date \in RunSplits
    /\ df_processed = <<>>
    /\ train_data = <<>>
    /\ test_data = <<>>
    /\ fitted = FALSE
    /\ window = D
    /\ LoopInit
    /\ NoBatch

loopVars == <<position, cash, entry_price, shares, portfolio_values, i, row, prev>>

\* enhanced.py 96-99
Prepare ==
    /\ pc = "start"
    /\ df_processed' = prepare_features(df)
    /\ train_data' = TrainRows(df_processed', split_date)
    /\ test_data' = TestRows(df_processed', split_date)
    /\ pc' = "prepared"
    /\ UNCHANGED <<strategy, err, df, split_date, fitted>>
    /\ UNCHANGED loopVars
    /\ UNCHANGED <<window, batchVars>>

\* CheckTest that looks at the training set instead of the evaluation set.
CheckTestOnTrain ==
    /\ pc = "prepared"
    /\ IF Len(train_data) = 0
       THEN pc' = "failed" /\ err' = "ValueError: No test data available."
       ELSE pc' = "checked" /\ err' = err
    /\ UNCHANGED <<strategy, df, split_date, df_processed, train_data, test_data, fitted>>
    /\ UNCHANGED loopVars
    /\ UNCHANGED <<window, batchVars>>

\* enhanced.py 101-102
CheckTest ==
    /\ pc = "prepared"
    /\ IF Len(test_data) = 0
       THEN pc' = "failed" /\ err' = "ValueError: No test data available."
       ELSE pc' = "checked" /\ err' = err
    /\ UNCHANGED <<strategy, df, split_date, df_processed, train_data, test_data, fitted>>
    /\ UNCHANGED loopVars
    /\ UNCHANGED <<window, batchVars>>

\* enhanced.py 104-106: RandomForestRegressor.fit rejects an empty training set
Fit ==
    /\ pc = "checked"
    /\ IF Len(train_data) = 0
       THEN pc' = "failed" /\ err' = "ValueError: 0 samples" /\ fitted' = fitted
       ELSE pc' = "fitted" /\ err' = err /\ fitted' = TRUE
    /\ UNCHANGED <<strategy, df, split_date, df_processed, train_data, test_data>>
    /\ UNCHANGED loopVars
    /\ UNCHANGED <<window, batchVars>>

TrainTargets == {train_data[t].Target_Diff : t \in 1 .. Len(train_data)}

RECURSIVE Lcm(_)
\* least common multiple of 1 .. n
Lcm(n) == IF n <= 1 THEN 1 ELSE (Lcm(n - 1) * n) \div GCD(Lcm(n - 1), n)

RECURSIVE WeightedSums(_, _)
\* the sums c[1] * target[1] + ... + c[k] * target[k] of the targets of the first
\* k training rows, over all counts c >= 0 with c[1] + ... + c[k] = budget
WeightedSums(k, budget) ==
    IF k = 1 THEN {RMul(R(budget), train_data[1].Target_Diff)}
    ELSE UNION {{RAdd(x, RMul(R(c), train_data[k].Target_Diff)) :
                    x \in WeightedSums(k - 1, budget - c)} : c \in 0 .. budget}

\* enhanced.py 108: the values model.predict can return for a row.  The forest
\* returns the mean of its NTrees trees; a tree grown on a bootstrap sample of
\* the n training rows returns the mean of the draws in one leaf, 1 to n draws,
\* so the forest returns a weighted mean of the training targets with weights
\* c / (NTrees * Lcm(n)).  Which draws the seed makes is not modelled: every
\* such mean is a value the action can choose.  The means and their mean are
\* summed in floats: the result is exact when every target is one exact float.
ForestOutputs ==
    LET n == Len(train_data)
        q == NTrees * Lcm(n)
        first == train_data[1].Target_Diff
    IN  IF n = 0 THEN {}
        ELSE IF Exact(first) /\ TrainTargets = {first} THEN {first}
        ELSE {Uncertain(RDiv(x, R(q))) : x \in WeightedSums(n, q)}

WithPrediction(r, diff) ==
    [Date |-> r.Date, Open |-> r.Open, High |-> r.High, Low |-> r.Low,
     Close |-> r.Close, Volume |-> r.Volume, WMA_3 |-> r.WMA_3, MA |-> r.MA,
     STD |-> r.STD, Upper_Track |-> r.Upper_Track, Lower_Track |-> r.Lower_Track,
     ATR |-> r.ATR, WMA_3_lag |-> r.WMA_3_lag, Target_Diff |-> r.Target_Diff,
     Predicted_Diff |-> diff, Predicted_WMA_Next |-> RAdd(r.WMA_3, diff)]

\* enhanced.py 108-116
Predict ==
    /\ pc = "fitted"
    /\ \E p \in [1 .. Len(test_data) -> ForestOutputs] :
          test_data' = AsSeq([t \in 1 .. Len(test_data) |-> WithPrediction(test_data[t], p[t])])
    /\ position' = InitSt.position
    /\ cash' = InitSt.cash
    /\ entry_price' = InitSt.entry_price
    /\ shares' = InitSt.shares
    /\ portfolio_values' = <<>>
    /\ pc' = "loop"
    /\ UNCHANGED <<strategy, err, df, split_date, df_processed, train_data, fitted, i, row, prev>>
    /\ UNCHANGED <<window, batchVars>>

\* enhanced.py 118-158, one iteration
RunBar ==
    /\ strategy = "enhanced"
    /\ pc = "loop"
    /\ i < Len(test_data)
    /\ ProcessBar(test_data[i + 1])
    /\ UNCHANGED pipeVars
    /\ UNCHANGED <<window, batchVars>>

\* enhanced.py 160-161
Return ==
    /\ pc = "loop"
    /\ i = Len(test_data)
    /\ pc' = "returned"
    /\ UNCHANGED <<strategy, err, df, split_date, df_processed, train_data, test_data, fitted>>
    /\ UNCHANGED loopVars
    /\ UNCHANGED <<window, batchVars>>

NextRun == Prepare \/ CheckTest \/ Fit \/ Predict \/ RunBar \/ Return

SpecRun == InitRun /\ [][NextRun]_vars

(***************************************************************************)
(* Performance metrics (indicators.py 86-122) of a portfolio value series. *)
(* pandas divides as numpy does: x / 0 is an infinity or NaN, never an     *)
(* exception.  The infinities are <<1, 0, e>> and <<-1, 0, e>>; with e = 2 *)
(* the divisor was a rounding residue or zero, and the quotient is huge or *)
(* infinite.                                                               *)
(***************************************************************************)
PosInf == <<1, 0, 0>>
IsInf(x) == x[2] = 0 /\ x[1] # 0

\* Series / Series of finite or undefined values
NPDiv(x, y) ==
    IF x = NaN \/ y = NaN THEN NaN
    ELSE IF y[1] = 0 THEN (IF x[1] = 0 THEN NaN ELSE <<Sign(x[1]), 0, y[3]>>)
    ELSE RDiv(x, y)

\* x - 1.0
MinusOne(x) == IF x = NaN \/ IsInf(x) THEN x ELSE RSub(x, One)

\* x * 100.0
Percent(x) == IF x = NaN \/ IsInf(x) THEN x ELSE RMul(x, R(100))

\* the fraction of x is below that of y, on finite and infinite values
ExtLt(x, y) ==
    /\ x # NaN /\ y # NaN
    /\ IF IsInf(x) \/ IsInf(y)
       THEN IF IsInf(x) /\ IsInf(y) THEN x[1] < y[1]
            ELSE IF IsInf(x) THEN x[1] < 0 ELSE y[1] > 0
       ELSE RLt(x, y)

\* the entries among idx no entry of idx exceeds
Greatest(s, idx) == {u \in idx : \A v \in idx : ~ExtLt(s[u], s[v])}
\* the float all of the entries c are, or a float near their common fraction
\* when rounding orders them
OneOf(s, c) ==
    LET x == s[CHOOSE u \in c : TRUE]
    IN  IF \A u \in c : s[u] = x \/ SameFloat(s[u], x) THEN x ELSE Uncertain(x)

\* Series.cummax(): the greatest defined value so far; an undefined entry is
\* skipped by the running maximum and stays undefined in the result
CumMax(s) ==
    AsSeq([t \in 1 .. Len(s) |->
              IF s[t] = NaN THEN NaN
              ELSE OneOf(s, Greatest(s, {u \in 1 .. t : s[u] # NaN}))])

\* the entry t is the running maximum at t, whatever rounding made of it
IsRunningMax(s, t) ==
    LET c == Greatest(s, {u \in 1 .. t : s[u] # NaN})
    IN  t \in c /\ \A u \in c : u = t \/ SameFloat(s[u], s[t])

\* portfolio_values / rolling_max, entry t
RatioToMax(pv, rolling_max, t) ==
    IF pv[t] = NaN THEN NaN
    ELSE IF IsRunningMax(pv, t) THEN (IF pv[t][1] = 0 \/ IsInf(pv[t]) THEN NaN ELSE One)
    ELSE NPDiv(pv[t], rolling_max[t])

\* Series.min(): undefined entries are skipped
SeriesMin(s) ==
    LET def == {t \in 1 .. Len(s) : s[t] # NaN}
    IN  IF def = {} THEN NaN
        ELSE OneOf(s, {u \in def : \A v \in def : ~ExtLt(s[v], s[u])})

\* calculate_max_drawdown without the "- 1.0".
calculate_max_drawdown_ratio(pv) ==
    LET rolling_max == CumMax(pv)
        drawdown == AsSeq([t \in 1 .. Len(pv) |-> RatioToMax(pv, rolling_max, t)])
    IN  Percent(SeriesMin(drawdown))

\* indicators.py 99-101
calculate_max_drawdown(pv) ==
    LET rolling_max == CumMax(pv)
        drawdown == AsSeq([t \in 1 .. Len(pv) |-> MinusOne(RatioToMax(pv, rolling_max, t))])
    IN  Percent(SeriesMin(drawdown))

\* Series.pct_change(): value[t] / value[t-1] - 1, undefined on the first row
pct_change(s) ==
    AsSeq([t \in 1 .. Len(s) |-> IF t = 1 THEN NaN ELSE MinusOne(NPDiv(s[t], s[t - 1]))])

\* Series.dropna()
DropNaN(s) == SelectSeq(s, LAMBDA x : x # NaN)

HasInf(s) == \E t \in 1 .. Len(s) : IsInf(s[t])

\* Series.mean(): undefined for an empty series
SeriesMean(s) ==
    IF Len(s) = 0 THEN NaN
    ELSE IF HasInf(s)
         THEN IF \A t \in 1 .. Len(s) : ~(IsInf(s[t]) /\ s[t][1] < 0) THEN PosInf
              ELSE IF \A t \in 1 .. Len(s) : ~(IsInf(s[t]) /\ s[t][1] > 0) THEN RNeg(PosInf)
              ELSE NaN
         ELSE RDiv(SumRange(s, 1, Len(s)), R(Len(s)))

\* Series.std() squared (ddof = 1): undefined for fewer than two values
SeriesVar(s) ==
    IF Len(s) < 2 \/ HasInf(s) THEN NaN
    ELSE LET n   == Len(s)
             sq  == AsSeq([t \in 1 .. n |-> RMul(s[t], s[t])])
             sm  == SumRange(s, 1, n)
         IN  RDiv(RSub(RMul(R(n), SumRange(sq, 1, n)), RMul(sm, sm)), R(n * (n - 1)))

\* A float calculate_sharpe_ratio returns.  kind "value": sign * sqrt(square),
\* rounded; kind "nan": NaN; kind "residue": a quotient that rounding residues
\* decide, of that sign and of a magnitude not determined here.
SharpeValue(sign, square) == [kind |-> "value", sign |-> sign, square |-> square]
SharpeZero == SharpeValue(0, Zero)
SharpeNaN == [kind |-> "nan", sign |-> 0, square |-> Zero]
SharpeResidue(sign) == [kind |-> "residue", sign |-> sign, square |-> Zero]

\* indicators.py 118-122: the set of floats the call can return.  mean / std *
\* sqrt(252) is sign(mean) * sqrt(252 * mean^2 / var).  The guard std() == 0 and
\* the mean are computed on floats.  Returns that are one float whose multiples
\* are floats (0.0 on a constant series, 1.0, 0.5) have std() 0.0 and give 0.0,
\* and so do two returns that are one float.  Where the fractions of the
\* returns have variance 0 or mean 0 but the floats do not settle it, rounding
\* decides between 0.0 and a residue.
calculate_sharpe_ratio(pv) ==
    LET daily_returns == DropNaN(pct_change(pv))
        vr == SeriesVar(daily_returns)
        mn == SeriesMean(daily_returns)
        signs == IF mn[1] = 0 THEN {-1, 1} ELSE {Sign(mn[1])}
    IN  IF \E t \in 1 .. Len(daily_returns) : IsInf(daily_returns[t]) /\ daily_returns[t][3] = 2
        THEN {SharpeNaN, SharpeZero, SharpeResidue(-1), SharpeResidue(1)}
        ELSE IF vr = NaN \/ mn = NaN \/ IsInf(mn) THEN {SharpeNaN}
        ELSE IF vr[1] = 0
        THEN IF (\A t \in 1 .. Len(daily_returns) :
                    SameFloat(daily_returns[t], daily_returns[1]))
                /\ (Len(daily_returns) <= 2 \/ Exact(daily_returns[1]))
             THEN {SharpeZero}
             ELSE {SharpeZero} \cup {SharpeResidue(sg) : sg \in signs}
        ELSE IF mn[1] = 0
        THEN IF \A t \in 1 .. Len(daily_returns) : Exact(daily_returns[t])
             THEN {SharpeZero}
             ELSE {SharpeZero} \cup {SharpeResidue(sg) : sg \in signs}
        ELSE {SharpeValue(Sign(mn[1]), RDiv(RMul(R(252), RMul(mn, mn)), vr))}

(***************************************************************************)
(* SpecClassical: ClassicalBollingerStrategy.run on a whole price series,  *)
(* with window d (the constructor's argument) and k = K.                   *)
(***************************************************************************)
ClassicalTail == 4
LinearLen == 30
FreeLen == 4

ClassicalPrices == {2, 12, 40}
FreePrices == {0, 2, 12}
ClassicalWindows == {3, D}

\* a flat stretch of D - 1 bars and then ClassicalTail bars at any prices
TailSeries ==
    {[t \in 1 .. (D - 1 + ClassicalTail) |->
         MkBar(t, IF t <= D - 1 THEN base ELSE tail[t - (D - 1)], 0)] :
        base \in ClassicalPrices, tail \in [1 .. ClassicalTail -> ClassicalPrices]}

\* all-constant series of every length up to D - 1 + ClassicalTail
ConstantSeries ==
    {[t \in 1 .. n |-> MkBar(t, base, 0)] :
        n \in 0 .. (D - 1 + ClassicalTail), base \in ClassicalPrices}

\* close rising by a constant positive step
LinearSeries ==
    {[t \in 1 .. LinearLen |-> MkBar(t, start + step * (t - 1), 0)] :
        start \in {0, 5}, step \in {1, 2}}

\* every series of at most FreeLen bars, at any prices
FreeSeries ==
    UNION {{[t \in 1 .. n |-> MkBar(t, c[t], 0)] : c \in [1 .. n -> FreePrices]} :
           n \in 0 .. FreeLen}

ClassicalSeries == TailSeries \cup ConstantSeries \cup LinearSeries \cup FreeSeries

\* classical.py 56-57: the copy of the frame with its band columns
ClassicalFrame(frame, d, k) ==
    LET bb == calculate_bollinger_bands(Column(frame, "Close"), d, k)
    IN  AsSeq([t \in 1 .. Len(frame) |->
            [Date |-> frame[t].Date, Close |-> frame[t].Close, MA |-> bb[t].MA,
             STD |-> bb[t].STD, Upper_Track |-> bb[t].Upper_Track,
             Lower_Track |-> bb[t].Lower_Track]])

InitClassical ==
    /\ strategy = "classical"
    /\ pc = "start"
    /\ err = ""
    /\ df \in ClassicalSeries
    /\ window \in ClassicalWindows
    /\ split_date = 0
    /\ df_processed = <<>>
    /\ train_data = <<>>
    /\ test_data = <<>>
    /\ fitted = FALSE
    /\ LoopInit
    /\ NoBatch

\* classical.py 56-62
ClassicalPrepare ==
    /\ strategy = "classical"
    /\ pc = "start"
    /\ df_processed' = ClassicalFrame(df, window, K)
    /\ position' = InitSt.position
    /\ cash' = InitSt.cash
    /\ shares' = InitSt.shares
    /\ portfolio_values' = <<>>
    /\ pc' = "loop"
    /\ UNCHANGED <<strategy, err, df, split_date, train_data, test_data, fitted>>
    /\ UNCHANGED <<entry_price, i, row, prev, window, batchVars>>

\* classical.py 64-79, one iteration
ClassicalRunBar ==
    /\ strategy = "classical"
    /\ pc = "loop"
    /\ i < Len(df_processed)
    /\ ProcessBar(df_processed[i + 1])
    /\ UNCHANGED pipeVars
    /\ UNCHANGED <<window, batchVars>>

\* classical.py 81-83
ClassicalReturn ==
    /\ strategy = "classical"
    /\ pc = "loop"
    /\ i = Len(df_processed)
    /\ pc' = "returned"
    /\ UNCHANGED pipeVars
    /\ UNCHANGED loopVars
    /\ UNCHANGED <<err, window, batchVars>>

NextClassical == ClassicalPrepare \/ ClassicalRunBar \/ ClassicalReturn

SpecClassical == InitClassical /\ [][NextClassical]_vars

(***************************************************************************)
(* SpecIndicators: calculate_atr and calculate_wma_3 applied to a frame.   *)
(***************************************************************************)
IndLen == 4
IndPrices == {1, 2, 4}
IndSpreads == {0, 1}
IndWindows == 1 .. 3

\* every frame of at most IndLen bars
IndSeries ==
    UNION {{[t \in 1 .. n |-> MkBar(t, c[t], sp[t])] :
               c \in [1 .. n -> IndPrices], sp \in [1 .. n -> IndSpreads]} :
           n \in 0 .. IndLen}

InitIndicators ==
    /\ strategy = "none"
    /\ pc = "start"
    /\ err = ""
    /\ df \in IndSeries
    /\ window \in IndWindows
    /\ split_date = 0
    /\ df_processed = <<>>
    /\ train_data = <<>>
    /\ test_data = <<>>
    /\ fitted = FALSE
    /\ LoopInit
    /\ NoBatch

indVars == <<strategy, err, df, split_date, train_data, test_data, fitted, window>>

\* indicators.py 56-83: df['ATR'] = calculate_atr(df, n)
ApplyATR ==
    /\ pc = "start"
    /\ strategy = "none"
    /\ LET atr == calculate_atr(df, window)
       IN  df_processed' = AsSeq([t \in 1 .. Len(df) |-> [Date |-> df[t].Date, ATR |-> atr[t]]])
    /\ pc' = "atr"
    /\ UNCHANGED <<indVars, loopVars, batchVars>>

\* indicators.py 9-29: df['WMA_3'] = calculate_wma_3(df['Close'])
ApplyWMA3 ==
    /\ pc = "start"
    /\ strategy = "none"
    /\ LET wma == calculate_wma_3(Column(df, "Close"))
       IN  df_processed' = AsSeq([t \in 1 .. Len(df) |-> [Date |-> df[t].Date, WMA_3 |-> wma[t]]])
    /\ pc' = "wma"
    /\ UNCHANGED <<indVars, loopVars, batchVars>>

NextIndicators == ApplyATR \/ ApplyWMA3

SpecIndicators == InitIndicators /\ [][NextIndicators]_vars

(***************************************************************************)
(* SpecBatch: the ticker loop of cli.main.  What a ticker's data makes of  *)
(* an iteration is an input: the step that raises on it (if any) and       *)
(* whether its rows on or after the split date are none.                   *)
(***************************************************************************)
MaxTickers == 3

\* cli.py 90-141: the statements of the try body, in order
Steps ==
    <<"get_stock_data", "calculate_bollinger_bands", "split", "classical_run",
      "enhanced_run", "get_metrics", "append", "plot_results", "print_result">>

\* the steps that can raise, which is every one of them.  Their own code
\* raises in the download (data.py 64-65), on a frame without the needed
\* columns, in the comparison of the index with a --split that is no date
\* (cli.py 94), in either run(), in the plot and in the print of line 141 on a
\* stream that rejects the text; get_metrics (127-128) and the append
\* (130-138) raise only what the interpreter raises inside any statement: a
\* MemoryError, which the except clause catches, or a KeyboardInterrupt or
\* SystemExit, which it does not.
FailingSteps == {Steps[k] : k \in 1 .. Len(Steps)}

\* A ticker as the loop sees it: the statement of the try body that raises on
\* it (print_no_data: the print of line 97), whether its rows on or after the
\* split date are none, and what escapes the except clause on it: the print of
\* line 88 before the try raises ("start"); a statement of the handler, the
\* print of line 144 or traceback.print_exc of line 145, raises ("handler");
\* the failing statement raises what is no Exception, a KeyboardInterrupt or
\* SystemExit, which `except Exception` does not catch ("uncaught"); or
\* nothing.  One case for each course an iteration can take.
TickerCases ==
    {c \in [fails_at : FailingSteps \cup {"print_no_data", "none"},
            test_empty : BOOLEAN,
            escapes : {"none", "start", "handler", "uncaught"}] :
        /\ c.test_empty <=> (c.fails_at = "print_no_data" \/
                             (c.fails_at = "none" /\ c.test_empty))
        /\ c.escapes = "start" => (c.fails_at = "none" /\ ~c.test_empty)
        /\ c.escapes \in {"handler", "uncaught"} => c.fails_at # "none"}

Ticker(k, c) ==
    [name |-> k, fails_at |-> c.fails_at, test_empty |-> c.test_empty,
     escapes |-> c.escapes]

\* the lists of n tickers
TickerLists(n) ==
    {[k \in 1 .. n |-> Ticker(k, c[k])] : c \in [1 .. n -> TickerCases]}

\* cli.py 148-152: the statements that write the summary, in order; each can
\* raise (a closed or non-encoding stdout, an unwritable evaluation directory)
SummarySteps == <<"DataFrame", "print_header", "print_table", "to_csv", "print_saved">>

RECURSIVE Iteration(_, _, _)
\* cli.py 89-145: the try body on ticker t from step k on; done lists the steps
\* completed, end tells how the iteration ended
Iteration(t, k, done) ==
    IF k > Len(Steps) THEN [done |-> done, end |-> "ok"]
    ELSE IF t.fails_at = Steps[k] THEN [done |-> done, end |-> "except"]
    ELSE IF Steps[k] = "split" /\ t.test_empty
         THEN [done |-> Append(done, Steps[k]),
               end |-> IF t.fails_at = "print_no_data" THEN "except" ELSE "continue"]
    ELSE Iteration(t, k + 1, Append(done, Steps[k]))

Did(o, step) == \E k \in 1 .. Len(o.done) : o.done[k] = step

InitBatch ==
    /\ strategy = "none"
    /\ pc = "batch"
    /\ err = ""
    /\ df = <<>>
    /\ window = D
    /\ split_date = 0
    /\ df_processed = <<>>
    /\ train_data = <<>>
    /\ test_data = <<>>
    /\ fitted = FALSE
    /\ LoopInit
    /\ \E n \in 0 .. MaxTickers : tickers \in TickerLists(n)
    /\ ticker_i = 0
    /\ results = <<>>
    /\ outcome = <<>>

\* cli.py 87-145, one iteration of the for loop.  The print of line 88 stands
\* before the try and lines 144-145 in the handler: an exception of either is
\* caught by nothing and ends main with the loop where it is, and so does an
\* exception of the try body that is no Exception.  err names the statement
\* whose exception left main.
ProcessTicker ==
    /\ pc = "batch"
    /\ ticker_i < Len(tickers)
    /\ LET t == tickers[ticker_i + 1]
           o == Iteration(t, 1, <<>>)
       IN  IF t.escapes = "start"
           THEN /\ pc' = "crashed"
                /\ err' = "print_start"
                /\ outcome' = Append(outcome, [ticker |-> t.name, done |-> <<>>,
                                               end |-> "raised"])
                /\ UNCHANGED <<results, ticker_i>>
           ELSE /\ results' = IF Did(o, "append")
                              THEN Append(results, [Ticker |-> t.name])
                              ELSE results
                /\ IF o.end = "except" /\ t.escapes # "none"
                   THEN /\ pc' = "crashed"
                        /\ err' = IF t.escapes = "handler" THEN "handler" ELSE t.fails_at
                        /\ outcome' = Append(outcome, [ticker |-> t.name, done |-> o.done,
                                                       end |-> "raised"])
                        /\ ticker_i' = ticker_i
                   ELSE /\ pc' = pc
                        /\ err' = err
                        /\ outcome' = Append(outcome, [ticker |-> t.name, done |-> o.done,
                                                       end |-> o.end])
                        /\ ticker_i' = ticker_i + 1
    /\ UNCHANGED <<tickers, strategy, df, split_date, train_data, test_data, fitted, window>>
    /\ UNCHANGED <<df_processed, loopVars>>

\* cli.py 147-152, after the loop: nothing when there is no row; else the
\* summary is built, printed, written to results_summary.csv and announced.
\* The statements stand outside any try: the first that raises ends main, with
\* the file written only when it is the last print that raised.
WriteSummary ==
    /\ pc = "batch"
    /\ ticker_i = Len(tickers)
    /\ IF Len(results) = 0
       THEN pc' = "done" /\ err' = err
       ELSE \/ pc' = "saved" /\ err' = err
            \/ \E k \in 1 .. Len(SummarySteps) :
                  pc' = "crashed" /\ err' = SummarySteps[k]
    /\ UNCHANGED <<batchVars, strategy, df, split_date, train_data, test_data, fitted, window>>
    /\ UNCHANGED <<df_processed, loopVars>>

NextBatch == ProcessTicker \/ WriteSummary

SpecBatch == InitBatch /\ [][NextBatch]_vars

(***************************************************************************)
(* SpecPositive: the enhanced loop on rows whose close is positive.        *)
(***************************************************************************)
PositiveRows == {r \in EnhancedRows : RGt(r.Close, Zero)}

InitPositive ==
    /\ strategy = "enhanced"
    /\ Init

\* enhanced.py 118-158, one iteration on a bar with a positive close
EnhancedBarPositive ==
    /\ strategy = "enhanced"
    /\ pc = "loop"
    /\ i < MaxBars
    /\ \E r \in PositiveRows : ProcessBar(r)
    /\ UNCHANGED pipeVars
    /\ UNCHANGED <<window, batchVars>>

NextPositive == EnhancedBarPositive

SpecPositive == InitPositive /\ [][NextPositive]_vars

(***************************************************************************)
(* Properties.  BarDone: the loop has completed a bar; row is that bar's   *)
(* row and prev the state the bar started from.  BarRaised: the bar in row *)
(* raised instead.                                                         *)
(***************************************************************************)
Enhanced == strategy = "enhanced"
BarDone == pc \in {"loop", "returned"} /\ i >= 1
BarRaised == pc = "failed" /\ err = "ZeroDivisionError"

pred_wma == row.Predicted_WMA_Next
EnterLong == TLe(pred_wma, row.Lower_Track, row.ties.lower)
EnterShort == TGe(pred_wma, row.Upper_Track, row.ties.upper)
LongStop == RSub(prev.entry_price, RMul(R(3), row.ATR))
ShortStop == RAdd(prev.entry_price, RMul(R(3), row.ATR))
ClosesLong ==
    FLt(pred_wma, LongStop, row.ties.stop) \/ TGt(pred_wma, row.Upper_Track, row.ties.upper)
ClosesShort ==
    FGt(pred_wma, ShortStop, row.ties.stop) \/ TLt(pred_wma, row.Lower_Track, row.ties.lower)

\* C1: in both simulators, after every bar the position is one of FLAT, LONG,
\* SHORT, the classical simulator is never SHORT, and shares = 0 whenever FLAT.
C1_PositionAndShares ==
    /\ position \in {FLAT, LONG, SHORT}
    /\ strategy = "classical" => position # SHORT
    /\ position = FLAT => shares = Zero

\* a bar that closed a position holding a non-zero number of shares
C1_Witness ==
    /\ BarDone
    /\ prev.position # FLAT
    /\ prev.shares # Zero
    /\ position = FLAT

\* C2: per bar of the enhanced simulator at most one rule fires, in the order
\* FLAT->LONG, FLAT->SHORT, LONG->FLAT, SHORT->FLAT: a FLAT state whose entry
\* condition holds ends the bar in the position opened (never closed again on
\* that bar), a LONG or SHORT state ends the bar in that position or FLAT (never
\* re-opened), and when no applicable rule fires position, cash, shares and
\* entry_price are unchanged.
C2_OneTransitionPerBar ==
    (Enhanced /\ BarDone) =>
        /\ (prev.position = FLAT /\ EnterLong) => position = LONG
        /\ (prev.position = FLAT /\ ~EnterLong /\ EnterShort) => position = SHORT
        /\ (prev.position = FLAT /\ ~EnterLong /\ ~EnterShort) => Cur = prev
        /\ prev.position = LONG => (position \in {LONG, FLAT} /\ (~ClosesLong => Cur = prev))
        /\ prev.position = SHORT => (position \in {SHORT, FLAT} /\ (~ClosesShort => Cur = prev))

\* a LONG opened on a bar on which the LONG exit condition holds for the new position
C2_Witness ==
    /\ Enhanced /\ BarDone
    /\ prev.position = FLAT
    /\ position = LONG
    /\ \/ RLt(pred_wma, RSub(entry_price, RMul(R(3), row.ATR)))
       \/ TGt(pred_wma, row.Upper_Track, row.ties.upper)

\* C3: on any bar where the enhanced state is FLAT and predWMA <= lowerBand the
\* state becomes LONG with shares = cash / close (cash from before the bar),
\* cash = 0 and entryPrice = close, also when predWMA >= upperBand holds as
\* well.  The bar completes: it is not ended by an exception.
C3_LongEntry ==
    (Enhanced /\ (BarDone \/ BarRaised) /\ prev.position = FLAT /\ EnterLong) =>
        /\ pc # "failed"
        /\ position = LONG
        /\ shares = RDiv(prev.cash, row.Close)
        /\ cash = Zero
        /\ entry_price = row.Close

\* C4: on any bar where the enhanced state is FLAT, predWMA > lowerBand and
\* predWMA >= upperBand, the state becomes SHORT with
\* shares = initialCapital / close, entryPrice = close and
\* cash = initialCapital + shares * close, whatever the cash was before.  The
\* bar completes: it is not ended by an exception.
C4_ShortEntry ==
    (Enhanced /\ (BarDone \/ BarRaised) /\ prev.position = FLAT
       /\ TGt(pred_wma, row.Lower_Track, row.ties.lower) /\ EnterShort) =>
        /\ pc # "failed"
        /\ position = SHORT
        /\ shares = RDiv(R(InitialCapital), row.Close)
        /\ entry_price = row.Close
        /\ cash = RAdd(R(InitialCapital), RMul(shares, row.Close))

\* C5: a LONG position of the enhanced simulator is closed on a bar exactly when
\* predWMA < entryPrice - 3 * atr or predWMA > upperBand; closing sets
\* cash = shares * close and shares = 0; otherwise position, shares and
\* entryPrice are unchanged.
C5_LongExit ==
    (Enhanced /\ BarDone /\ prev.position = LONG) =>
        /\ position = FLAT <=> ClosesLong
        /\ ClosesLong => (cash = RMul(prev.shares, row.Close) /\ shares = Zero)
        /\ ~ClosesLong => (position = LONG /\ shares = prev.shares
                            /\ entry_price = prev.entry_price)

\* a LONG position kept on a bar whose predWMA equals the stop level
C5_Witness ==
    /\ Enhanced /\ BarDone
    /\ prev.position = LONG
    /\ SameFloat(pred_wma, LongStop)
    /\ position = LONG

\* C6: a SHORT position of the enhanced simulator is closed on a bar exactly
\* when predWMA > entryPrice + 3 * atr or predWMA < lowerBand; closing sets
\* cash = cash - shares * close and shares = 0, the value reported on that bar
\* is cash - shares * close of the cash and shares held before closing, and
\* that cash is initialCapital + shares * entryPrice.
C6_ShortExit ==
    (Enhanced /\ BarDone /\ prev.position = SHORT) =>
        /\ prev.cash = RAdd(R(InitialCapital), RMul(prev.shares, prev.entry_price))
        /\ position = FLAT <=> ClosesShort
        /\ ClosesShort =>
              /\ cash = RSub(prev.cash, RMul(prev.shares, row.Close))
              /\ shares = Zero
              /\ portfolio_values[i] = RSub(prev.cash, RMul(prev.shares, row.Close))
        /\ ~ClosesShort => Cur = prev

\* a SHORT closed by its stop-loss at a close other than its entry price
C6_Witness ==
    /\ Enhanced /\ BarDone
    /\ prev.position = SHORT
    /\ FGt(pred_wma, ShortStop, row.ties.stop)
    /\ row.Close # prev.entry_price
    /\ position = FLAT

\* the valuation the specification gives for a state at a close
ValueOf(p, c, sh, close) ==
    IF p = FLAT THEN c
    ELSE IF p = LONG THEN RMul(sh, close)
    ELSE RSub(c, RMul(sh, close))

\* C7: the enhanced run's portfolio value series has one value per evaluation
\* bar, in bar order (the i-th value belongs to the i-th evaluation row, a
\* returned series has as many values as evaluation rows), and each value is
\* that of the state after the bar's transition: cash when FLAT, shares * close
\* when LONG, cash - shares * close when SHORT.
C7_ValueSeries ==
    /\ Len(portfolio_values) = i
    /\ pc = "returned" => Len(portfolio_values) = Len(test_data)
    /\ BarDone =>
          /\ row = WithTies(test_data[i], row.ties)
          /\ portfolio_values[i] = ValueOf(position, cash, shares, test_data[i].Close)

\* a returned series of at least two values whose last bar ends SHORT
C7_Witness ==
    /\ pc = "returned"
    /\ Len(test_data) >= 2
    /\ position = SHORT

\* C8: with an empty evaluation set the enhanced run fails at the check, before
\* the model is fitted and before any portfolio value exists; no run gets past
\* the check with an empty evaluation set, and a returned series is never
\* partial (it has one value per evaluation row).
C8_EmptyEvaluationSet ==
    /\ pc \in {"checked", "fitted", "loop", "returned"} => Len(test_data) > 0
    /\ (pc # "start" /\ Len(test_data) = 0) =>
          /\ pc \in {"prepared", "failed"}
          /\ ~fitted
          /\ portfolio_values = <<>>
    /\ (pc = "failed" /\ Len(test_data) = 0) => err = "ValueError: No test data available."
    /\ pc = "returned" => Len(portfolio_values) = Len(test_data)

\* the run failed on an empty evaluation set although rows exist before the split
C8_Witness ==
    /\ pc = "failed"
    /\ err = "ValueError: No test data available."
    /\ Len(train_data) > 0

\* C9: the empty-evaluation-set check is the only way an enhanced run fails:
\* whenever the evaluation set is not empty (the training set may be empty, a
\* close may be 0) the run does not fail.
C9_OnlyEmptyEvaluationFails ==
    pc = "failed" => Len(test_data) = 0

\* price series that agree with frame on every bar dated before split and differ
\* in one bar dated on or after it
Variants(frame, split) ==
    {[frame EXCEPT ![t] = MkBar(t, c, sp)] :
        t \in {u \in 1 .. Len(frame) : u >= split}, c \in RunPrices, sp \in RunSpreads}

\* C10: every training row is dated before the split date, every evaluation row
\* on or after it, and the features and targets the model is fitted on do not
\* depend on any bar dated on or after the split date.
C10_TemporalSeparation ==
    pc = "prepared" =>
        /\ \A t \in 1 .. Len(train_data) : train_data[t].Date < split_date
        /\ \A t \in 1 .. Len(test_data) : test_data[t].Date >= split_date
        /\ \A alt \in Variants(df, split_date) :
              FitInput(alt, split_date) = FitInput(df, split_date)

(***************************************************************************)
(* The classical strategy on whole series (SpecClassical).                 *)
(***************************************************************************)
Classical == strategy = "classical"
ConstantCloses == \A t \in 1 .. Len(df) : df[t].Close = df[1].Close
LinearRise ==
    /\ Len(df) >= 2
    /\ RGt(df[2].Close, df[1].Close)
    /\ \A t \in 2 .. Len(df) :
          RSub(df[t].Close, df[t - 1].Close) = RSub(df[2].Close, df[1].Close)

\* C11: on an all-constant price series of any length the classical strategy
\* is FLAT with no shares after every bar, also where the bands are defined and
\* Upper = Lower = MA = close.
C11_ConstantSeriesStaysFlat ==
    (Classical /\ ConstantCloses /\ pc \in {"loop", "returned"}) =>
        (position = FLAT /\ shares = Zero)

Below(r) == TLt(r.Close, r.Lower_Track, 0)
Above(r) == TGt(r.Close, r.Upper_Track, 0)
\* the first bar whose close is below the Lower Track (0 when there is none)
CrashBar ==
    IF \E t \in 1 .. Len(df_processed) : Below(df_processed[t])
    THEN CHOOSE t \in 1 .. Len(df_processed) :
             Below(df_processed[t]) /\ \A u \in 1 .. (t - 1) : ~Below(df_processed[u])
    ELSE 0
\* the first bar after CrashBar whose close is above the Upper Track (0 when none)
RecoveryBar ==
    IF CrashBar > 0 /\ \E t \in (CrashBar + 1) .. Len(df_processed) : Above(df_processed[t])
    THEN CHOOSE t \in (CrashBar + 1) .. Len(df_processed) :
             Above(df_processed[t])
             /\ \A u \in (CrashBar + 1) .. (t - 1) : ~Above(df_processed[u])
    ELSE 0
RisingOver(lo, hi) ==
    \A t \in (lo + 1) .. hi : RGt(df_processed[t].Close, df_processed[t - 1].Close)

\* C12: when the close first falls below the Lower Track at bar CrashBar and
\* first rises above the Upper Track afterwards at bar RecoveryBar, the classical
\* strategy opens LONG at CrashBar with shares = cash / close and cash = 0, is
\* LONG on every bar strictly between, closes to FLAT at RecoveryBar with
\* cash = shares * close, and the value rises strictly over those bars while the
\* close does.
C12_CrashAndRecovery ==
    (Classical /\ BarDone /\ CrashBar > 0 /\ RecoveryBar > 0) =>
        /\ i = CrashBar =>
              /\ prev.position = FLAT
              /\ position = LONG
              /\ shares = RDiv(prev.cash, row.Close)
              /\ cash = Zero
        /\ (CrashBar < i /\ i < RecoveryBar) => position = LONG
        /\ i = RecoveryBar =>
              /\ prev.position = LONG
              /\ position = FLAT
              /\ cash = RMul(prev.shares, row.Close)
        /\ (CrashBar < i /\ i <= RecoveryBar /\ RisingOver(CrashBar, i)) =>
              \A t \in (CrashBar + 1) .. i :
                  RGt(portfolio_values[t], portfolio_values[t - 1])

\* C13: on a series of LinearLen bars whose close rises by a constant positive
\* step, with d = D and k = K, the classical strategy is FLAT after every bar and
\* the last portfolio value is the initial capital.
C13_LinearRiseNoTrade ==
    (Classical /\ window = D /\ LinearRise /\ Len(df) = LinearLen) =>
        /\ position = FLAT
        /\ shares = Zero
        /\ pc # "failed"
        /\ pc = "returned" =>
              /\ Len(portfolio_values) = LinearLen
              /\ portfolio_values[LinearLen] = R(InitialCapital)
C13_Witness ==
    /\ Classical /\ window = D /\ LinearRise /\ Len(df) = LinearLen
    /\ pc = "returned"
    /\ i = LinearLen
    /\ ~TIsNaN(row.Lower_Track)
    /\ TGt(row.Close, row.Lower_Track, row.ties.lower)
    /\ TLt(row.Close, row.Upper_Track, row.ties.upper)

(***************************************************************************)
(* The indicators (SpecIndicators).  Index t of the source is bar t + 1.   *)
(***************************************************************************)
\* C14: the true range of the first bar is undefined, so with window n the ATR
\* is undefined at every index below n: on each of the first n + 1 bars.
C14_ATRWarmUp ==
    pc = "atr" =>
        \A t \in 1 .. Len(df_processed) : t <= window => IsNaN(df_processed[t].ATR)

Price(t) == df[t].Close[1]

\* C15: calculate_wma_3 is (1 * p[t-2] + 2 * p[t-1] + 3 * p[t]) / 6 at every index
\* t >= 2 (the float of that quotient: the weighted sum is exact and is divided
\* once) and undefined at indices 0 and 1; a series shorter than 3 has no
\* defined value.
C15_WMA3 ==
    pc = "wma" =>
        /\ Len(df_processed) = Len(df)
        /\ \A t \in 1 .. Len(df) :
              IF t >= 3
              THEN LET w == df_processed[t].WMA_3
                   IN  /\ <<w[1], w[2]>> =
                             Norm(1 * Price(t - 2) + 2 * Price(t - 1) + 3 * Price(t), 6)
                       /\ w[3] <= 1
              ELSE IsNaN(df_processed[t].WMA_3)
        /\ Len(df) < 3 => \A t \in 1 .. Len(df) : IsNaN(df_processed[t].WMA_3)
C15_Witness ==
    /\ pc = "wma"
    /\ Len(df) >= 3
    /\ Price(1) < Price(2) /\ Price(2) < Price(3)
    /\ ~IsNaN(df_processed[3].WMA_3)
    /\ IsNaN(df_processed[2].WMA_3)

(***************************************************************************)
(* The metrics of the value series the loops produce (Spec).               *)
(***************************************************************************)
\* no float of s is below the one before it: the fraction grows, or the two are
\* one float
NonDecreasing(s) ==
    \A t \in 2 .. Len(s) : RLt(s[t - 1], s[t]) \/ SameFloat(s[t - 1], s[t])
\* every value of s is one and the same float
ConstantValues(s) == \A t \in 1 .. Len(s) : SameFloat(s[t], s[1])

\* C16: calculate_max_drawdown of a value series a simulator produced is a
\* number <= 0, also when a SHORT drove the value to zero or below, and is
\* exactly 0 when the series never decreases.
C16_MaxDrawdownSign ==
    BarDone =>
        LET dd == calculate_max_drawdown(portfolio_values)
        IN  /\ ~IsNaN(dd)
            /\ RLe(dd, Zero)
            /\ NonDecreasing(portfolio_values) => dd = Zero
C16_Witness ==
    /\ Enhanced /\ BarDone
    /\ position = SHORT
    /\ RLe(portfolio_values[i], Zero)
    /\ RLt(calculate_max_drawdown(portfolio_values), R(-100))

\* C17: calculate_sharpe_ratio is 0.0 on every constant value series, of any
\* length, also of 1 or 2 values.
C17_ConstantSeriesSharpeZero ==
    (BarDone /\ ConstantValues(portfolio_values)) =>
        calculate_sharpe_ratio(portfolio_values) = {SharpeZero}

(***************************************************************************)
(* The batch loop (SpecBatch).                                             *)
(***************************************************************************)
InBatch == pc \in {"batch", "saved", "done", "crashed"}
BatchEnded == pc \in {"saved", "done", "crashed"}
BothStrategies(o) == Did(o, "classical_run") /\ Did(o, "enhanced_run")
Completed == SelectSeq(outcome, BothStrategies)
\* results_summary.csv has been written: to_csv of line 151 completed
SummaryWritten == pc = "saved" \/ (pc = "crashed" /\ err = "print_saved")

\* C18: a ticker whose iteration fails (no data, no evaluation rows, any other
\* error) does not stop the batch: every ticker of the list is gone through in
\* order, and the summary is written with one row for exactly the tickers on
\* which both strategies completed.
C18_BatchContinues ==
    InBatch =>
        /\ \A k \in 1 .. Len(outcome) : outcome[k].ticker = tickers[k].name
        /\ Len(results) = Len(Completed)
        /\ \A k \in 1 .. Len(results) : results[k].Ticker = Completed[k].ticker
        /\ BatchEnded =>
              /\ ticker_i = Len(tickers)
              /\ Len(outcome) = Len(tickers)
              /\ SummaryWritten <=> Len(Completed) > 0

(***************************************************************************)
(* prepare_features (SpecRun, right after Prepare).                        *)
(***************************************************************************)
Kept(t) == \E k \in 1 .. Len(df_processed) : df_processed[k].Date = t
FeaturesAndTargetDefined(r) ==
    /\ \A f \in 1 .. Len(Features(r)) : ~IsNaN(Features(r)[f])
    /\ ~IsNaN(r.Target_Diff)
IndicatorsDefined(r) ==
    /\ ~IsNaN(r.MA) /\ ~TIsNaN(r.STD) /\ ~TIsNaN(r.Upper_Track)
    /\ ~TIsNaN(r.Lower_Track) /\ ~IsNaN(r.ATR)
ExpectedColumns ==
    <<"Open", "High", "Low", "Close", "Volume", "WMA_3_lag_0", "WMA_3_lag_1",
      "WMA_3_lag_2", "WMA_3_lag_3", "WMA_3_lag_4", "WMA_3_lag_5">>
\* every kept row has its target WMA3(t+1) - WMA3(t) and its six lags defined,
\* the last bar is not kept, and the feature list is ExpectedColumns
KeptRowsComplete ==
    LET wma == calculate_wma_3(Column(df, "Close"))
    IN  /\ \A k \in 1 .. Len(df_processed) :
              LET r == df_processed[k]
              IN  /\ r.Date < Len(df)
                  /\ ~IsNaN(r.Target_Diff)
                  /\ r.Target_Diff = RSub(wma[r.Date + 1], wma[r.Date])
                  /\ Len(Features(r)) = Len(feature_cols)
                  /\ \A j \in 0 .. 5 :
                        /\ r.Date - j >= 1
                        /\ ~IsNaN(wma[r.Date - j])
                        /\ Features(r)[6 + j] = wma[r.Date - j]
        /\ ~Kept(Len(df))
        /\ feature_cols = ExpectedColumns

\* C19 as amended: prepare_features keeps a row if and only if every column of
\* it is defined: its 11 features, its target and also MA, STD, both tracks and
\* the ATR; every kept row has a defined target and six defined lags, the last
\* bar is never kept, and the feature list is Open, High, Low, Close, Volume,
\* WMA_3_lag_0 .. WMA_3_lag_5 in that order.
C19_KeptIffAllColumnsDefined ==
    (Enhanced /\ pc = "prepared") =>
        /\ LET ff == FeatureFrame(df)
           IN  \A t \in 1 .. Len(df) :
                   Kept(t) <=> (FeaturesAndTargetDefined(ff[t]) /\ IndicatorsDefined(ff[t]))
        /\ KeptRowsComplete
C19_Witness ==
    /\ Enhanced /\ pc = "prepared"
    /\ Len(df_processed) >= 2
    /\ Kept(D) /\ ~Kept(D - 1)
    /\ FeaturesAndTargetDefined(FeatureFrame(df)[D - 1])
    /\ df[Len(df)].Close # df[D].Close

\* C19 as stated: prepare_features keeps a row if and only if its 11 features
\* and its target are defined (and the rest as above).
C19_KeptIffFeaturesAndTarget ==
    (Enhanced /\ pc = "prepared") =>
        /\ LET ff == FeatureFrame(df)
           IN  \A t \in 1 .. Len(df) : Kept(t) <=> FeaturesAndTargetDefined(ff[t])
        /\ KeptRowsComplete

(***************************************************************************)
(* The value reported on an entry bar of the enhanced loop (Spec).         *)
(***************************************************************************)
Entered == Enhanced /\ BarDone /\ prev.position = FLAT /\ position # FLAT

\* C20 as amended: on a bar that opens a LONG the reported value is the cash
\* held before the bar; on a bar that opens a SHORT it is the initial capital,
\* whatever cash was held before the bar.  The value is that very float when
\* the share count is the exact quotient, and the float of a computation whose
\* exact result is that amount when the division rounded.
C20_EntryValue ==
    Entered =>
        /\ position = LONG =>
              /\ SameValue(portfolio_values[i], prev.cash)
              /\ (Exact(prev.cash) /\ Exact(shares)) =>
                    SameFloat(portfolio_values[i], prev.cash)
        /\ position = SHORT =>
              /\ SameValue(portfolio_values[i], R(InitialCapital))
              /\ Exact(shares) => portfolio_values[i] = R(InitialCapital)
C20_Witness ==
    /\ Entered
    /\ position = SHORT
    /\ ~SameValue(prev.cash, R(InitialCapital))
    /\ SameValue(portfolio_values[i], R(InitialCapital))
    /\ ~Exact(shares)
    /\ portfolio_values[i] # R(InitialCapital)
    /\ i >= 3

\* C20 as stated: on every bar that opens a position, LONG or SHORT, the
\* reported value is the cash held before the bar, the same float.
C20_EntryValueIsPriorCash ==
    Entered =>
        /\ portfolio_values[i] = prev.cash
        /\ portfolio_values[i][3] <= 1 \/ Scale(row.Close)

(***************************************************************************)
(* Signs of cash and shares in the enhanced loop (SpecPositive).           *)
(***************************************************************************)
\* C21: with positive closes and a positive initial capital, cash >= 0 and
\* shares >= 0 after every bar of the enhanced loop, whatever the rows were.
C21_CashAndSharesNonNegative ==
    (Enhanced /\ pc \in {"loop", "returned"}) =>
        (RGe(cash, Zero) /\ RGe(shares, Zero))

(***************************************************************************)
(* The warm-up of the classical strategy (SpecClassical).                  *)
(***************************************************************************)
BandsUndefined(r) == TIsNaN(r.Lower_Track) \/ TIsNaN(r.Upper_Track)

\* C22: the classical loop makes no transition on a bar whose bands are
\* undefined: the bands of the first d - 1 bars are undefined, and through
\* those bars the position is FLAT and every value is the initial capital,
\* whatever the closes are.
C22_WarmUpStaysFlat ==
    (Classical /\ pc \in {"loop", "returned", "failed"}) =>
        /\ \A t \in 1 .. Len(df_processed) :
              t <= window - 1 => BandsUndefined(df_processed[t])
        /\ (BarDone /\ BandsUndefined(row)) =>
              (position = prev.position /\ cash = prev.cash /\ shares = prev.shares)
        /\ BarRaised => (~BandsUndefined(row) /\ i >= window - 1)
        /\ i <= window - 1 =>
              /\ pc # "failed" => position = FLAT
              /\ shares = Zero
              /\ cash = R(InitialCapital)
              /\ \A t \in 1 .. i : portfolio_values[t] = R(InitialCapital)
C22_Witness ==
    /\ Classical /\ BarDone
    /\ i = window - 1
    /\ i >= 2
    /\ df[1].Close # df[2].Close
    /\ BandsUndefined(row)
    /\ position = FLAT
    /\ portfolio_values[i] = R(InitialCapital)
====
